---- MODULE Spec2Model ----
(***************************************************************************)
(* The reactive key/value state container of                               *)
(* exercises/custom-state-management.md, in the four versions the exercise *)
(* builds one after the other:                                             *)
(*   LocalState               cold state$, the constructor's own           *)
(*                            subscription assigns this.state              *)
(*   LocalStateShare          the same with share(ReplaySubject(1))        *)
(*   ReactiveState            cold state$ whose tap assigns this.state     *)
(*   ReactiveStateConnectable connectable(..., ReplaySubject(1)), connected*)
(*                            in the constructor, released in onDestroy    *)
(* The subscription of the constructor of the tap version is the one the   *)
(* text of the exercise asks for ("we need to subscribe to state$ to       *)
(* activate it", with takeUntilDestroyed); its tap(s => state = s) is read *)
(* as the assignment to this.state.                                        *)
(* Every action is one synchronous call or one asynchronous event with the *)
(* whole rxjs dispatch it triggers (Subject.next -> map(coerceObservable)  *)
(* -> mergeAll -> scan -> tap/subscriber).                                 *)
(***************************************************************************)
EXTENDS Integers, Sequences, FiniteSets, TLC

(* ----------------------------- bounds --------------------------------- *)
NumProducers == 2
NumConsumers == 2
NumEffects == 2
MaxUpdates == 3
MaxEffectEmits == 1
\* pipeline runs of select() consumers that exist at the same time when
\* state$ is cold
MaxColdRuns == 1

Producers == 1..NumProducers
Consumers == 1..NumConsumers
Effects == 1..NumEffects
\* run 0 is the container's own subscription to the pipeline; run c is the
\* pipeline run of consumer c when state$ is cold
ChainIds == 0..NumConsumers

Versions ==
  {"LocalState", "LocalStateShare", "ReactiveState", "ReactiveStateConnectable"}

\* route params emissions (navigations) of one visit of a page
MaxNavs == 3
\* movies shown in the list
NumMovies == 2
\* clicks on the favorite buttons, all movies together
MaxTriggers == 4
\* page requests of one paginate() stream
MaxPages == 3
\* paginate$ triggers (the end of the list became visible)
MaxScrolls == 4
\* movies on a page of results
PageSize == 2
\* searches the user starts after the one the page was opened with
MaxSearches == 3
\* retry({ count: 2, delay: 1000 })
RetryCount == 2
\* navigations of the shell
MaxEnded == 5
\* calls of MovieService.toggleFavorite
MaxToggles == 4

(* --------------------------- data model ------------------------------- *)
Movies == 1..NumMovies
Keys == {"a", "b"}
\* the values of a key are opaque to the container
Values == {"1", "2"}
Undefined == "undefined"
\* private state: Partial<T> = {}
Empty == [k \in {} |-> 0]
\* the partial updates handed to set() and emitted by connect(slice$) producers
Partials == {[a |-> "1"], [a |-> "2"], [b |-> "3"], [a |-> "1", b |-> "3"]}

\* how producer p is handed to connect: connect(p) or connect(key, p)
Mode(p) == IF p % 3 = 1 THEN "slice" ELSE IF p % 3 = 2 THEN "b" ELSE "a"

\* what consumer c subscribes to: select() or select(key)
Sel(c) == IF c % 3 = 1 THEN "all" ELSE IF c % 3 = 2 THEN "a" ELSE "b"

VARIABLES
  version,      \* which version of the class is instantiated
  alive,        \* the owning scope (DestroyRef) has not been destroyed
  state,        \* this.state
  chains,       \* the runs of slices$.pipe(map, mergeAll, scan ...)
  ownSub,       \* the constructor's subscribe() / connect() is still open
  replay,       \* buffer of the ReplaySubject(1) of the current connector
  order,        \* select() consumers currently subscribed, in subscription order
  cons,         \* the select() consumers
  conn,         \* the producer has been handed to connect()
  invocations,  \* how often each producer has been subscribed
  effectsSub,   \* the constructor's subscription to effects$.pipe(mergeAll())
  eff,          \* the effects handed to hold()
  held,         \* hold() has been called for the effect
  effectEmits,  \* values emitted by held effects so far
  updates,      \* number of set() calls and producer emissions so far
  merged,       \* number of partial updates run 0 has merged
  written,      \* reference: per key, the value last written while the scope lived
  scenario,     \* progress of the run connect(p1); p1 emits {a:1}, {a:2}, {b:3}
  afterEffErr,  \* run 0 merged an update after the effects subscription errored
  late,         \* set() was called or a producer emitted after the teardown
  page,         \* the routed component: MovieListPage or MovieSearchPage
  reqs,         \* the requests its switchMap has issued, one per params emission
  shown,        \* the request whose response the consumer was handed last
  favorites,    \* MovieService: the ids stored under 'my-movies'
  favoritesMap, \* the ids in the value of the component's favoritesMap$
  fetched,      \* the timer of getFavoriteMovies() has fired
  pending,      \* toggleFavorite timers that run, in the order they started
  triggered,    \* per movie, the toggleFavorite$.next(movie) calls made
  requested,    \* per movie, the MovieService.toggleFavorite(movie) calls made
  movieState,   \* the snapshot of the ReactiveState of MovieListPageComponent
  effectFirst,  \* the alert effect subscribed toggleFavorite$ before the state pipeline
  waiting,      \* movies whose alert effect waits for favoritesLoading[id] to be falsy
  alerts,       \* per movie, the alert('movie updated') calls made
  subscribed,   \* the observable returned by paginate() is subscribed
  scrolls,      \* paginate$.next() calls made
  calls,        \* the page numbers requestFn has been called with, in order
  busy,         \* the inner request of exhaustMap has not completed
  received,     \* the results of the page requests that have responded
  allMovies,    \* the local cache of the cache version
  outCache,     \* the list the cache version emitted last
  outScan,      \* the list the scan version emitted last
  recovery,     \* what catchError of the search stream returns: NEVER or searchMovies(false)
  query,        \* the current value of activatedRoute.params of the search page
  navs,         \* emissions of the params after the one present at subscription
  stage,        \* the search stream: idle, listening, delay (retry timer), dead
  hot,          \* the stream that listens was made by searchMovies(true)
  soFar,        \* the counter of the retry operator of that stream
  searches,     \* the searchMovies requests made, in order
  errorShown,   \* error$.next() calls made
  found,        \* the results handed to the template last
  sideDrawerOpen, \* AppShellComponent.sideDrawerOpen
  url,          \* the URL the router is at
  lastUrl,      \* the URL distinctUntilChanged let pass last
  ended,        \* NavigationEnd events so far
  stored,       \* MovieService: the list stored under 'my-movies', as movie ids
  timers,       \* subscribed toggleFavorite(movie) observables whose timer runs
  answer,       \* the value the toggleFavorite observable that fired last emitted
  log           \* the toggles that have completed: movie id, ids stored before

containerVars ==
  <<version, alive, state, chains, ownSub, replay, order, cons, conn,
    invocations, effectsSub, eff, held, effectEmits, updates, merged,
    written, scenario, afterEffErr, late>>

pageVars == <<page, reqs, shown>>

favVars == <<favorites, favoritesMap, fetched, pending, triggered, requested>>

storeVars == <<movieState>>

alertVars == <<effectFirst, waiting, alerts>>

paginateVars ==
  <<subscribed, scrolls, calls, busy, received, allMovies, outCache, outScan>>

searchVars ==
  <<recovery, query, navs, stage, hot, soFar, searches, errorShown, found>>

shellVars == <<sideDrawerOpen, url, lastUrl, ended>>

serviceVars == <<stored, timers, answer, log>>

appVars ==
  <<pageVars, favVars, storeVars, alertVars, paginateVars, searchVars,
    shellVars, serviceVars>>

vars == <<containerVars, appVars>>

\* every version handing each select() consumer a pipeline run of its own
ColdAlways == TRUE

Cold == version \in {"LocalState", "ReactiveState"}

(* --------------------------- pure helpers ----------------------------- *)
\* a fold that forgets the accumulated state
MergeReplace(s, slice) == slice

\* a fold in which the first value written to a key wins
MergeKeepOld(s, slice) ==
  [k \in (DOMAIN s) \cup (DOMAIN slice) |->
     IF k \in DOMAIN s THEN s[k] ELSE slice[k]]

\* scan((state, slice) => ({ ...state, ...slice }), {} as T)
Merge(s, slice) ==
  [k \in (DOMAIN s) \cup (DOMAIN slice) |->
     IF k \in DOMAIN slice THEN slice[k] ELSE s[k]]

\* a wrapping that writes the value to every key
KeySliceAllKeys(key, v) == [k \in Keys |-> v]

\* map(keySlice => ({ [keyOrSlice as K]: keySlice }))
KeySlice(key, v) == [k \in {key} |-> v]

\* a get that answers a default value for a key never written
GetOrDefault(s, k) == IF k \in DOMAIN s THEN s[k] ELSE "1"

\* get(k): this.state[k]
Get(s, k) == IF k \in DOMAIN s THEN s[k] ELSE Undefined

\* select() returns state$, select(key) returns state$.pipe(map(state => state[key]))
Project(s, sel) == IF sel = "all" THEN s ELSE Get(s, sel)

InSeq(x, sq) == \E i \in 1..Len(sq) : sq[i] = x

Without(sq, x) == SelectSeq(sq, LAMBDA y : y # x)

InitChain ==
  [status |-> "none", acc |-> Empty, inner |-> [p \in Producers |-> "none"]]

\* a new subscription to the pipeline: scan starts from its seed {}
FreshChain == [InitChain EXCEPT !.status = "active"]

\* a teardown that leaves the pipeline run subscribed
KeepChain(ch) == ch

\* a teardown that closes the run and leaks its subscriptions to the producers
CloseChainKeepInner(ch) ==
  [ch EXCEPT !.status = IF @ = "active" THEN "closed" ELSE @, !.acc = Empty]

\* unsubscribing a pipeline run unsubscribes the inner subscriptions of
\* mergeAll; the accumulator of a finished run is out of reach
CloseChain(ch) ==
  [ch EXCEPT !.status = IF @ = "active" THEN "closed" ELSE @,
             !.acc = Empty,
             !.inner = [p \in Producers |->
                          IF ch.inner[p] = "active" THEN "unsubscribed"
                          ELSE ch.inner[p]]]

\* mergeAll forwards the error of an inner observable: the run errors and the
\* other inner subscriptions are unsubscribed
ErrorChain(ch, p) ==
  [ch EXCEPT !.status = "errored",
             !.acc = Empty,
             !.inner = [q \in Producers |->
                          IF q = p THEN "errored"
                          ELSE IF ch.inner[q] = "active" THEN "unsubscribed"
                          ELSE ch.inner[q]]]

\* no callback of the consumer ran in the step that led here
NoDelivery == << >>

IdleConsumer == [status |-> "idle", delivery |-> NoDelivery]

\* the deliveries of the previous step are over
Quiet(cs) == [c \in Consumers |-> [cs[c] EXCEPT !.delivery = NoDelivery]]

Live(ch) == chains[ch].status = "active"

\* the observers of slices$ in subscription order: the constructor subscribed
\* first, a cold select() consumer when it subscribed
DispatchOrder ==
  (IF Live(0) THEN <<0>> ELSE << >>) \o SelectSeq(order, Live)

NewAcc(ch, slice) == Merge(chains[ch].acc, slice)

(* ----------------- reference values of the claims --------------------- *)
NothingWritten == [k \in Keys |-> Undefined]

\* per key: the latest value wins, a key absent from the slice keeps its value
LatestWins(w, slice) ==
  [k \in Keys |-> IF k \in DOMAIN slice THEN slice[k] ELSE w[k]]

\* the run connect(p1) on a new container, then p1 emits {a:1}, {a:2}, {b:3}
ScenarioAfter(src, slice) ==
  IF src = 1 /\ scenario = "connected" /\ slice = [a |-> "1"] THEN "a1"
  ELSE IF src = 1 /\ scenario = "a1" /\ slice = [a |-> "2"] THEN "a1a2"
  ELSE IF src = 1 /\ scenario = "a1a2" /\ slice = [b |-> "3"] THEN "a1a2b3"
  ELSE "off"

(* ------------ what the runs in em do downstream of scan --------------- *)
\* this.state after the runs in em (in that order) have emitted
StateAfter(em, slice) ==
  CASE version = "LocalState" ->
         \* .subscribe(state => this.state = state) of the constructor
         IF InSeq(0, em) THEN NewAcc(0, slice) ELSE state
    [] version = "ReactiveState" ->
         \* tap(s => state = s) runs in every run of state$
         IF em = << >> THEN state ELSE NewAcc(em[Len(em)], slice)
    [] version = "LocalStateShare" ->
         IF InSeq(0, em) /\ ownSub THEN NewAcc(0, slice) ELSE state
    [] version = "ReactiveStateConnectable" ->
         \* no tap and no subscriber assigns this.state
         state

\* a select(key) with distinctUntilChanged: an unchanged value is not handed on
RecvDistinct(c, s, g) ==
  IF Sel(c) \in Keys
     /\ Get(s, Sel(c)) = Get(chains[IF Cold THEN c ELSE 0].acc, Sel(c))
  THEN [cons[c] EXCEPT !.delivery = NoDelivery]
  ELSE [cons[c] EXCEPT !.delivery = <<[value |-> Project(s, Sel(c)),
                                       got |-> Project(g, Sel(c))]>>]

\* consumer c is handed snapshot s while get() returns g
Recv(c, s, g) ==
  [cons[c] EXCEPT !.delivery = <<[value |-> Project(s, Sel(c)),
                                 got |-> Project(g, Sel(c))]>>]

\* the consumers' callbacks run by the emissions of the runs in em
ConsAfter(em, slice) ==
  [c \in Consumers |->
     IF Cold
     THEN IF InSeq(c, em)
          THEN Recv(c, NewAcc(c, slice),
                    IF version = "ReactiveState" THEN NewAcc(c, slice)
                    ELSE StateAfter(em, slice))
          ELSE Quiet(cons)[c]
     ELSE IF InSeq(0, em) /\ cons[c].status = "subscribed"
          THEN Recv(c, NewAcc(0, slice), StateAfter(em, slice))
          ELSE Quiet(cons)[c]]

\* a connector that does not buffer the snapshot
ReplayKept(em, slice) == replay

\* subject.next(snapshot) of the ReplaySubject(1)
ReplayAfter(em, slice) ==
  IF ~Cold /\ InSeq(0, em) THEN <<NewAcc(0, slice)>> ELSE replay

\* the runs in em receive slice from source src (0 is set()) and fold it
Apply(em, src, slice) ==
  /\ chains' = [ch \in ChainIds |->
                  IF InSeq(ch, em)
                  THEN [chains[ch] EXCEPT !.acc = NewAcc(ch, slice)]
                  ELSE chains[ch]]
  /\ state' = StateAfter(em, slice)
  /\ cons' = ConsAfter(em, slice)
  /\ replay' = ReplayAfter(em, slice)
  /\ merged' = IF InSeq(0, em) THEN merged + 1 ELSE merged
  /\ written' = IF alive THEN LatestWins(written, slice) ELSE written
  /\ scenario' = IF InSeq(0, em) THEN ScenarioAfter(src, slice) ELSE "off"
  /\ afterEffErr' = (afterEffErr \/ (effectsSub = "errored" /\ InSeq(0, em)))
  /\ late' = (late \/ ~alive)

(* ------------------------------ Init ---------------------------------- *)
\* the fields of a container after construction
NewContainer ==
  /\ alive = TRUE
  /\ state = Empty
  /\ chains = [ch \in ChainIds |-> IF ch = 0 THEN FreshChain ELSE InitChain]
  /\ ownSub = TRUE
  /\ replay = << >>
  /\ order = << >>
  /\ cons = [c \in Consumers |-> IdleConsumer]
  /\ conn = [p \in Producers |-> FALSE]
  /\ invocations = [p \in Producers |-> 0]
  /\ effectsSub = "active"
  /\ eff = [e \in Effects |-> "none"]
  /\ held = [e \in Effects |-> FALSE]
  /\ effectEmits = 0
  /\ updates = 0
  /\ merged = 0
  /\ written = NothingWritten
  /\ scenario = "new"
  /\ afterEffErr = FALSE
  /\ late = FALSE

\* no route params have been emitted yet
PageIdle ==
  /\ reqs = << >>
  /\ shown = << >>

\* the MovieService before toggleFavorite has been called
ServiceIdle ==
  /\ timers = << >>
  /\ answer = << >>
  /\ log = << >>

\* AppShellComponent after ngOnInit, before the first navigation has ended
ShellIdle ==
  /\ sideDrawerOpen = FALSE
  /\ url = "/"
  /\ lastUrl = << >>
  /\ ended = 0

\* the search page before the template subscribes movies$
SearchIdle ==
  /\ navs = 0
  /\ stage = "idle"
  /\ hot = TRUE
  /\ soFar = 0
  /\ searches = << >>
  /\ errorShown = 0
  /\ found = << >>

\* paginate() has been called, its result is not subscribed yet
PaginateIdle ==
  /\ subscribed = FALSE
  /\ scrolls = 0
  /\ calls = << >>
  /\ busy = FALSE
  /\ received = << >>
  /\ allMovies = << >>
  /\ outCache = << >>
  /\ outScan = << >>

\* this.state.set({ favoritesLoading: {}, favorites: {} }) of the
\* constructor of the component, merged into the snapshot
InitialState == [favoritesLoading |-> Empty, favorites |-> {}]

\* the favorites of a page that has just been created
FavIdle ==
  /\ favoritesMap = {}
  /\ fetched = FALSE
  /\ pending = << >>
  /\ triggered = [m \in Movies |-> 0]
  /\ requested = [m \in Movies |-> 0]
  /\ movieState = InitialState
  /\ waiting = {}
  /\ alerts = [m \in Movies |-> 0]

Init ==
  /\ stored = << >>
  /\ ServiceIdle
  /\ ShellIdle
  /\ recovery = "recursive"
  /\ query = "alien"
  /\ SearchIdle
  /\ PaginateIdle
  /\ version \in Versions
  /\ effectFirst = FALSE
  /\ NewContainer
  /\ page = "list"
  /\ PageIdle
  /\ favorites = {}
  /\ FavIdle

(* ---------------------------- set, connect ---------------------------- *)
\* set(slice) { this.slices$.next(slice) }
Set(slice) ==
  /\ updates < MaxUpdates
  /\ updates' = updates + 1
  /\ Apply(DispatchOrder, 0, slice)
  /\ UNCHANGED <<appVars, version, alive, ownSub, order, conn, invocations,
                 effectsSub, eff, held, effectEmits>>

\* connect(slice$) / connect(key, slice$): this.slices$.next(observable);
\* mergeAll of every run that observes slices$ subscribes to the observable
Connect(p) ==
  /\ ~conn[p]
  /\ conn' = [conn EXCEPT ![p] = TRUE]
  /\ chains' = [ch \in ChainIds |->
                  IF Live(ch) THEN [chains[ch] EXCEPT !.inner[p] = "active"]
                  ELSE chains[ch]]
  /\ invocations' = [invocations EXCEPT ![p] = @ + Len(DispatchOrder)]
  /\ scenario' = IF scenario = "new" /\ p = 1 /\ DispatchOrder = <<0>>
                 THEN "connected" ELSE "off"
  /\ cons' = Quiet(cons)
  /\ UNCHANGED <<appVars, version, alive, state, ownSub, replay, order, effectsSub,
                 eff, held, effectEmits, updates, merged, written,
                 afterEffErr, late>>

(* ----------------------- events of the producers ---------------------- *)
\* what a producer handed to connect in this mode may emit: partial states
\* for connect(slice$), values of the key for connect(key, slice$)
Emitted(mode) == IF mode = "slice" THEN Partials ELSE Values

\* the observable connect() passes to slices$: slice$ itself, or
\* keySlice$.pipe(map(keySlice => ({ [key]: keySlice })))
Coerce(mode, v) == IF mode = "slice" THEN v ELSE KeySlice(mode, v)

\* the runs subscribed to producer p, in the order in which they subscribed;
\* an event of the producer reaches them in that order
Subscribers(p) ==
  SelectSeq(DispatchOrder, LAMBDA ch : chains[ch].inner[p] = "active")

\* a concatAll in place of mergeAll: the value of a producer is held back
\* while a producer before it is still subscribed
ProducerEmitQueued(p, v) ==
  /\ updates < MaxUpdates
  /\ Subscribers(p) # << >>
  /\ v \in Emitted(Mode(p))
  /\ IF \E q \in Producers : q < p /\ chains[0].inner[q] = "active"
     THEN /\ written' = IF alive THEN LatestWins(written, Coerce(Mode(p), v))
                        ELSE written
          /\ late' = (late \/ ~alive)
          /\ cons' = Quiet(cons)
          /\ scenario' = "off"
          /\ UNCHANGED <<chains, state, replay, merged, afterEffErr>>
     ELSE Apply(Subscribers(p), p, Coerce(Mode(p), v))
  /\ updates' = updates + 1
  /\ UNCHANGED <<appVars, version, alive, ownSub, order, conn, invocations,
                 effectsSub, eff, held, effectEmits>>

\* producer p emits: every run subscribed to it folds the value
ProducerEmit(p, v) ==
  /\ updates < MaxUpdates
  /\ Subscribers(p) # << >>
  /\ v \in Emitted(Mode(p))
  /\ Apply(Subscribers(p), p, Coerce(Mode(p), v))
  /\ updates' = updates + 1
  /\ UNCHANGED <<appVars, version, alive, ownSub, order, conn, invocations,
                 effectsSub, eff, held, effectEmits>>

\* a merge that completes with the first inner observable that completes
ProducerCompleteEndsState(p) ==
  /\ Subscribers(p) # << >>
  /\ chains' = [ch \in ChainIds |->
                  IF InSeq(ch, Subscribers(p))
                  THEN [CloseChain(chains[ch]) EXCEPT !.inner[p] = "completed"]
                  ELSE chains[ch]]
  /\ cons' = Quiet(cons)
  /\ UNCHANGED <<appVars, version, alive, state, ownSub, replay, order, conn,
                 invocations, effectsSub, eff, held, effectEmits, updates,
                 merged, written, scenario, afterEffErr, late>>

\* the producer completes: mergeAll drops the inner subscription and goes on
ProducerComplete(p) ==
  /\ Subscribers(p) # << >>
  /\ chains' = [ch \in ChainIds |->
                  IF InSeq(ch, Subscribers(p))
                  THEN [chains[ch] EXCEPT !.inner[p] = "completed"]
                  ELSE chains[ch]]
  /\ cons' = Quiet(cons)
  /\ UNCHANGED <<appVars, version, alive, state, ownSub, replay, order, conn,
                 invocations, effectsSub, eff, held, effectEmits, updates,
                 merged, written, scenario, afterEffErr, late>>

\* the producer errors: every run it is merged into errors, and so does
\* everything downstream of that run
ProducerError(p) ==
  /\ Subscribers(p) # << >>
  /\ chains' = [ch \in ChainIds |->
                  IF InSeq(ch, Subscribers(p)) THEN ErrorChain(chains[ch], p)
                  ELSE chains[ch]]
  /\ IF Cold
     THEN \* subscribe(next) of the constructor has no error handler; a
          \* consumer's subscription ends with the error
          /\ ownSub' = IF InSeq(0, Subscribers(p)) THEN FALSE ELSE ownSub
          /\ cons' = [c \in Consumers |->
                        IF InSeq(c, Subscribers(p))
                        THEN [IdleConsumer EXCEPT !.status = "errored"]
                        ELSE Quiet(cons)[c]]
          /\ order' = SelectSeq(order, LAMBDA c : ~InSeq(c, Subscribers(p)))
          /\ replay' = replay
     ELSE \* subject.error(err) reaches every observer; share (resetOnError)
          \* and connectable (resetOnDisconnect) drop the subject
          /\ ownSub' = FALSE
          /\ cons' = [c \in Consumers |->
                        IF cons[c].status = "subscribed"
                        THEN [IdleConsumer EXCEPT !.status = "errored"]
                        ELSE Quiet(cons)[c]]
          /\ order' = << >>
          /\ replay' = << >>
  /\ scenario' = "off"
  /\ UNCHANGED <<appVars, version, alive, state, conn, invocations, effectsSub, eff,
                 held, effectEmits, updates, merged, written, afterEffErr,
                 late>>

\* the source of a producer emits after the runs have unsubscribed from it:
\* nothing observes the value
ProducerEmitUnobserved(p, v) ==
  /\ updates < MaxUpdates
  /\ chains[0].inner[p] = "unsubscribed"
  /\ Subscribers(p) = << >>
  /\ v \in Emitted(Mode(p))
  /\ updates' = updates + 1
  /\ written' = IF alive THEN LatestWins(written, Coerce(Mode(p), v))
                ELSE written
  /\ late' = (late \/ ~alive)
  /\ cons' = Quiet(cons)
  /\ UNCHANGED <<appVars, version, alive, state, chains, ownSub, replay, order, conn,
                 invocations, effectsSub, eff, held, effectEmits, merged,
                 scenario, afterEffErr>>

(* ------------------------------ select -------------------------------- *)
\* a consumer subscribes to select() or to select(key)
SelectSubscribe(c) ==
  /\ cons[c].status = "idle"
  /\ Cold => Len(order) < MaxColdRuns
  /\ order' = Append(order, c)
  /\ IF Cold
     THEN \* state$ is cold: the consumer gets a pipeline run of its own
          /\ chains' = [chains EXCEPT ![c] = FreshChain]
          /\ cons' = [Quiet(cons) EXCEPT ![c].status = "subscribed"]
     ELSE IF version = "LocalStateShare" /\ ~Live(0)
     THEN \* share() after a reset: a new ReplaySubject and a new connection
          /\ chains' = [chains EXCEPT ![0] = FreshChain]
          /\ cons' = [Quiet(cons) EXCEPT ![c].status = "subscribed"]
     ELSE \* the ReplaySubject(1) replays its buffer to the new observer
          /\ chains' = chains
          /\ cons' = [Quiet(cons) EXCEPT ![c] =
                        [status |-> "subscribed",
                         delivery |->
                           IF replay = << >> THEN NoDelivery
                           ELSE <<[value |-> Project(replay[1], Sel(c)),
                                   got |-> Project(state, Sel(c))]>>]]
  /\ scenario' = IF Cold THEN "off" ELSE scenario
  /\ UNCHANGED <<appVars, version, alive, state, ownSub, replay, conn, invocations,
                 effectsSub, eff, held, effectEmits, updates, merged,
                 written, afterEffErr, late>>

\* a reference count that leaves out the constructor's own subscription
ShareRefCountZeroExternal(ord) ==
  version = "LocalStateShare" /\ ord = << >> /\ Live(0)

\* share({ resetOnRefCountZero: true }): the last observer leaving
\* disconnects the source and drops the subject
ShareRefCountZero(ord) ==
  version = "LocalStateShare" /\ ~ownSub /\ ord = << >> /\ Live(0)

\* the consumer unsubscribes (and may subscribe again later)
SelectUnsubscribe(c) ==
  /\ cons[c].status = "subscribed"
  /\ cons' = [Quiet(cons) EXCEPT ![c] = IdleConsumer]
  /\ order' = Without(order, c)
  /\ chains' = IF Cold THEN [chains EXCEPT ![c] = InitChain]
               ELSE IF ShareRefCountZero(Without(order, c))
               THEN [chains EXCEPT ![0] = CloseChain(chains[0])]
               ELSE chains
  /\ replay' = IF ShareRefCountZero(Without(order, c)) THEN << >> ELSE replay
  /\ UNCHANGED <<appVars, version, alive, state, ownSub, conn, invocations,
                 effectsSub, eff, held, effectEmits, updates, merged,
                 written, scenario, afterEffErr, late>>

\* the consumer unsubscribes for good
Detach(c) ==
  /\ cons[c].status = "subscribed"
  /\ cons' = [Quiet(cons) EXCEPT ![c] =
                [IdleConsumer EXCEPT !.status = "detached"]]
  /\ order' = Without(order, c)
  /\ chains' = IF Cold THEN [chains EXCEPT ![c] = InitChain]
               ELSE IF ShareRefCountZero(Without(order, c))
               THEN [chains EXCEPT ![0] = CloseChain(chains[0])]
               ELSE chains
  /\ replay' = IF ShareRefCountZero(Without(order, c)) THEN << >> ELSE replay
  /\ UNCHANGED <<appVars, version, alive, state, ownSub, conn, invocations,
                 effectsSub, eff, held, effectEmits, updates, merged,
                 written, scenario, afterEffErr, late>>

(* ------------------------------ effects ------------------------------- *)
\* a hold that subscribes the effect whether or not effects$ is observed
HoldAlways(e) ==
  /\ ~held[e]
  /\ \A x \in Effects : x < e => held[x]
  /\ held' = [held EXCEPT ![e] = TRUE]
  /\ eff' = [eff EXCEPT ![e] = "active"]
  /\ cons' = Quiet(cons)
  /\ UNCHANGED <<appVars, version, alive, state, chains, ownSub, replay, order, conn,
                 invocations, effectsSub, effectEmits, updates, merged,
                 written, scenario, afterEffErr, late>>

\* hold(effect$) { this.effects$.next(effect$) }
Hold(e) ==
  /\ ~held[e]
  /\ \A x \in Effects : x < e => held[x]
  /\ held' = [held EXCEPT ![e] = TRUE]
  /\ eff' = IF effectsSub = "active" THEN [eff EXCEPT ![e] = "active"]
            ELSE eff
  /\ cons' = Quiet(cons)
  /\ UNCHANGED <<appVars, version, alive, state, chains, ownSub, replay, order, conn,
                 invocations, effectsSub, effectEmits, updates, merged,
                 written, scenario, afterEffErr, late>>

\* a runner that feeds the value of an effect into slices$
EffectEmitFeedsState(e) ==
  /\ eff[e] = "active"
  /\ effectEmits < MaxEffectEmits
  /\ effectEmits' = effectEmits + 1
  /\ Apply(DispatchOrder, 0, [a |-> "1"])
  /\ UNCHANGED <<appVars, version, alive, ownSub, order, conn, invocations,
                 effectsSub, eff, held, updates>>

\* .subscribe() without callbacks: the value of an effect is dropped
EffectEmit(e) ==
  /\ eff[e] = "active"
  /\ effectEmits < MaxEffectEmits
  /\ effectEmits' = effectEmits + 1
  /\ cons' = Quiet(cons)
  /\ UNCHANGED <<appVars, version, alive, state, chains, ownSub, replay, order, conn,
                 invocations, effectsSub, eff, held, updates, merged,
                 written, scenario, afterEffErr, late>>

EffectComplete(e) ==
  /\ eff[e] = "active"
  /\ eff' = [eff EXCEPT ![e] = "completed"]
  /\ cons' = Quiet(cons)
  /\ UNCHANGED <<appVars, version, alive, state, chains, ownSub, replay, order, conn,
                 invocations, effectsSub, held, effectEmits, updates,
                 merged, written, scenario, afterEffErr, late>>

\* an effects pipeline whose error also ends the container's state pipeline
EffectErrorEndsState(e) ==
  /\ eff[e] = "active"
  /\ effectsSub' = "errored"
  /\ eff' = [x \in Effects |->
               IF x = e THEN "errored"
               ELSE IF eff[x] = "active" THEN "unsubscribed" ELSE eff[x]]
  /\ chains' = [chains EXCEPT ![0] = CloseChain(chains[0])]
  /\ ownSub' = FALSE
  /\ cons' = Quiet(cons)
  /\ UNCHANGED <<appVars, version, alive, state, replay, order, conn, invocations,
                 held, effectEmits, updates, merged, written, scenario,
                 afterEffErr, late>>

\* mergeAll forwards the error of an effect: the subscription of the
\* constructor to effects$ ends and the other effects are unsubscribed
EffectError(e) ==
  /\ eff[e] = "active"
  /\ effectsSub' = "errored"
  /\ eff' = [x \in Effects |->
               IF x = e THEN "errored"
               ELSE IF eff[x] = "active" THEN "unsubscribed" ELSE eff[x]]
  /\ cons' = Quiet(cons)
  /\ UNCHANGED <<appVars, version, alive, state, chains, ownSub, replay, order, conn,
                 invocations, held, effectEmits, updates, merged, written,
                 scenario, afterEffErr, late>>

(* ------------------------------ teardown ------------------------------ *)
\* what the teardown runs: takeUntilDestroyed() of the constructor's
\* subscriptions, stateSub.unsubscribe() of the connectable version;
\* unsubscribing a closed subscription does nothing
Release ==
  /\ alive' = FALSE
  /\ ownSub' = FALSE
  /\ chains' = IF ~ownSub
                  \/ (version = "LocalStateShare" /\ ~(order = << >> /\ Live(0)))
               THEN chains
               ELSE [chains EXCEPT ![0] = CloseChain(chains[0])]
  /\ replay' = IF ~ownSub \/ Cold \/ ~Live(0) THEN replay
               ELSE IF version = "LocalStateShare" /\ order # << >> THEN replay
               ELSE << >>
  /\ effectsSub' = IF effectsSub = "active" THEN "closed" ELSE effectsSub
  /\ eff' = [e \in Effects |->
               IF eff[e] = "active" THEN "unsubscribed" ELSE eff[e]]
  /\ cons' = Quiet(cons)
  /\ UNCHANGED <<appVars, version, state, order, conn, invocations, held,
                 effectEmits, updates, merged, written, scenario,
                 afterEffErr, late>>

\* the owning scope is destroyed
Destroy ==
  /\ alive
  /\ Release

\* the teardown runs once more
DestroyAgain ==
  /\ ~alive
  /\ Release

(* ------------------------------- Next --------------------------------- *)
\* the state container with its select() consumers
Next ==
  \/ \E slice \in Partials : Set(slice)
  \/ \E p \in Producers : Connect(p)
  \/ \E p \in Producers : \E v \in Emitted(Mode(p)) : ProducerEmit(p, v)
  \/ \E p \in Producers : ProducerComplete(p)
  \/ \E p \in Producers : ProducerError(p)
  \/ \E p \in Producers : \E v \in Emitted(Mode(p)) :
       ProducerEmitUnobserved(p, v)
  \/ \E c \in Consumers : SelectSubscribe(c)
  \/ \E c \in Consumers : SelectUnsubscribe(c)
  \/ Destroy

Spec == Init /\ [][Next]_vars

\* the state container with its held effects
NextEffects ==
  \/ \E slice \in Partials : Set(slice)
  \/ \E p \in Producers : Connect(p)
  \/ \E p \in Producers : \E v \in Emitted(Mode(p)) : ProducerEmit(p, v)
  \/ \E p \in Producers : ProducerComplete(p)
  \/ \E p \in Producers : ProducerError(p)
  \/ \E e \in Effects : Hold(e)
  \/ \E e \in Effects : EffectEmit(e)
  \/ \E e \in Effects : EffectComplete(e)
  \/ \E e \in Effects : EffectError(e)
  \/ Destroy
  \/ DestroyAgain

SpecEffects == Init /\ [][NextEffects]_vars

\* the state container with select() consumers that leave for good
NextDetach ==
  \/ \E slice \in Partials : Set(slice)
  \/ \E p \in Producers : Connect(p)
  \/ \E p \in Producers : \E v \in Emitted(Mode(p)) : ProducerEmit(p, v)
  \/ \E p \in Producers : ProducerComplete(p)
  \/ \E p \in Producers : ProducerError(p)
  \/ \E c \in Consumers : SelectSubscribe(c)
  \/ \E c \in Consumers : Detach(c)
  \/ Destroy

SpecDetach == Init /\ [][NextDetach]_vars

(* --------------- the movie pages: params -> switchMap ----------------- *)
\* the pages whose movie stream is activatedRoute.params.pipe(switchMap(..))
Pages == {"list", "search"}

\* the route params that lead to each page
ParamsOf(pg) ==
  IF pg = "list"
  THEN {[category |-> "popular"], [category |-> "top_rated"], [id |-> "28"]}
  ELSE {[query |-> "alien"], [query |-> "throwError"]}

\* the MovieService call the projection of switchMap makes for the params
Project2Request(pg, prm) ==
  IF pg = "list"
  THEN IF "category" \in DOMAIN prm
       THEN [api |-> "getMovieList", arg |-> prm.category]
       ELSE [api |-> "getMoviesByGenre", arg |-> prm.id]
  ELSE [api |-> "searchMovies", arg |-> prm.query]

\* searchMovies' tap throws when the response of this query arrives
Throws(call) == call.api = "searchMovies" /\ call.arg = "throwError"

\* the list the backend answers a call with: the results of that very call
ResultsOf(call) == [of |-> call]

\* the outer stream is open until an inner request errors
StreamOpen == \A i \in 1..Len(reqs) : reqs[i].status # "failed"

\* mergeMap in place of switchMap: the previous inner request is kept
NavigateMerge(prm) ==
  /\ StreamOpen
  /\ Len(reqs) < MaxNavs
  /\ prm \in ParamsOf(page)
  /\ reqs' = Append(reqs, [params |-> prm,
                           call |-> Project2Request(page, prm),
                           status |-> "inflight"])
  /\ UNCHANGED <<containerVars, serviceVars, shellVars, searchVars, paginateVars, alertVars, storeVars, favVars, page, shown>>

\* activatedRoute.params emits prm: switchMap unsubscribes the inner
\* request it holds, which aborts its XHR, and subscribes the new one
Navigate(prm) ==
  /\ StreamOpen
  /\ Len(reqs) < MaxNavs
  /\ prm \in ParamsOf(page)
  /\ reqs' = Append([i \in 1..Len(reqs) |->
                       IF reqs[i].status = "inflight"
                       THEN [reqs[i] EXCEPT !.status = "aborted"]
                       ELSE reqs[i]],
                    [params |-> prm,
                     call |-> Project2Request(page, prm),
                     status |-> "inflight"])
  /\ UNCHANGED <<containerVars, serviceVars, shellVars, searchVars, paginateVars, alertVars, storeVars, favVars, page, shown>>

\* the response of request i arrives: only a request that is still
\* subscribed has a handler; its results go to the consumer
\* (movies = results, or the async pipe), or its tap throws
ServerResponds(i) ==
  /\ i \in 1..Len(reqs)
  /\ reqs[i].status = "inflight"
  /\ IF Throws(reqs[i].call)
     THEN /\ reqs' = [reqs EXCEPT ![i].status = "failed"]
          /\ UNCHANGED shown
     ELSE /\ reqs' = [reqs EXCEPT ![i].status = "done"]
          /\ shown' = <<[req |-> i, movies |-> ResultsOf(reqs[i].call)]>>
  /\ UNCHANGED <<containerVars, serviceVars, shellVars, searchVars, paginateVars, alertVars, storeVars, favVars, page>>

\* MovieListPageComponent as checked in: the subscriber of the params
\* subscribes the request of every emission and keeps the earlier ones
NavigateNested(prm) ==
  /\ page = "list"
  /\ Len(reqs) < MaxNavs
  /\ prm \in ParamsOf(page)
  /\ reqs' = Append(reqs, [params |-> prm,
                           call |-> Project2Request(page, prm),
                           status |-> "inflight"])
  /\ UNCHANGED <<containerVars, serviceVars, shellVars, searchVars, paginateVars, alertVars,
                 storeVars, favVars, page, shown>>

InitSwitch ==
  /\ stored = << >>
  /\ ServiceIdle
  /\ ShellIdle
  /\ recovery = "recursive"
  /\ query = "alien"
  /\ SearchIdle
  /\ PaginateIdle
  /\ version = "ReactiveStateConnectable"
  /\ effectFirst = FALSE
  /\ NewContainer
  /\ page \in Pages
  /\ PageIdle
  /\ favorites = {}
  /\ FavIdle

NextSwitch ==
  \/ \E prm \in ParamsOf(page) : Navigate(prm)
  \/ \E i \in 1..MaxNavs : ServerResponds(i)

SpecSwitch == InitSwitch /\ [][NextSwitch]_vars

InitNested ==
  /\ InitSwitch
  /\ page = "list"

NextNested ==
  \/ \E prm \in ParamsOf(page) : NavigateNested(prm)
  \/ \E i \in 1..MaxNavs : ServerResponds(i)

SpecNested == InitNested /\ [][NextNested]_vars

(* ------------- the favorites of the movie list page ------------------- *)
\* the toggleFavorite timers that run for movie id
InFlight(id) == {i \in 1..Len(pending) : pending[i] = id}

\* the sum of the counters f[m], m in S
RECURSIVE SumOver(_, _)
SumOver(f, S) ==
  IF S = {} THEN 0
  ELSE LET m == CHOOSE x \in S : TRUE IN f[m] + SumOver(f, S \ {m})

\* mergeMap alone (the first version of the subscription): every trigger
\* calls toggleFavorite
ToggleMergeMap(id) ==
  /\ SumOver(triggered, Movies) < MaxTriggers
  /\ triggered' = [triggered EXCEPT ![id] = @ + 1]
  /\ requested' = [requested EXCEPT ![id] = @ + 1]
  /\ pending' = Append(pending, id)
  /\ UNCHANGED <<containerVars, serviceVars, shellVars, searchVars, paginateVars, alertVars, storeVars, pageVars, favorites, favoritesMap, fetched>>

\* toggleFavorite$.next(movie): groupBy routes it to the group of movie.id,
\* whose exhaustMap calls toggleFavorite(movie) unless the request it
\* started before is still running, and then ignores the trigger
Toggle(id) ==
  /\ SumOver(triggered, Movies) < MaxTriggers
  /\ triggered' = [triggered EXCEPT ![id] = @ + 1]
  /\ IF InFlight(id) = {}
     THEN /\ requested' = [requested EXCEPT ![id] = @ + 1]
          /\ pending' = Append(pending, id)
     ELSE UNCHANGED <<requested, pending>>
  /\ UNCHANGED <<containerVars, serviceVars, shellVars, searchVars, paginateVars, alertVars, storeVars, pageVars, favorites, favoritesMap, fetched>>

\* the timer(1500) of getFavoriteMovies() fires: it was started when the
\* page was created, before any toggle; favoritesMap$ gets the stored ids
FavoritesFetched ==
  /\ ~fetched
  /\ fetched' = TRUE
  /\ favoritesMap' = favorites
  /\ UNCHANGED <<containerVars, serviceVars, shellVars, searchVars, paginateVars, alertVars, storeVars, pageVars, favorites, pending, triggered,
                 requested>>

\* the timer(1500) of the oldest running toggleFavorite fires: the service
\* removes or inserts the movie and answers false or true, and the
\* subscriber puts the map made from favoritesMap$.getValue() into
\* favoritesMap$
ToggleDone ==
  /\ fetched
  /\ pending # << >>
  /\ LET id == Head(pending) IN
       IF id \in favorites
       THEN /\ favorites' = favorites \ {id}
            /\ favoritesMap' = favoritesMap \ {id}
       ELSE /\ favorites' = favorites \cup {id}
            /\ favoritesMap' = favoritesMap \cup {id}
  /\ pending' = Tail(pending)
  /\ UNCHANGED <<containerVars, serviceVars, shellVars, searchVars, paginateVars, alertVars, storeVars, pageVars, fetched, triggered, requested>>

InitFavorites ==
  /\ stored = << >>
  /\ ServiceIdle
  /\ ShellIdle
  /\ recovery = "recursive"
  /\ query = "alien"
  /\ SearchIdle
  /\ PaginateIdle
  /\ version = "ReactiveStateConnectable"
  /\ effectFirst = FALSE
  /\ NewContainer
  /\ page = "list"
  /\ PageIdle
  /\ favorites \in SUBSET Movies
  /\ FavIdle

NextFavorites ==
  \/ \E id \in Movies : Toggle(id)
  \/ FavoritesFetched
  \/ ToggleDone

SpecFavorites == InitFavorites /\ [][NextFavorites]_vars

(* ------ the toggle pipeline connected to the ReactiveState ------------ *)
\* this.state as get() of the component's container returns it: the
\* versions with a tap or an assigning subscriber hold the snapshot, the
\* connectable version still holds the {} of the field initializer
ThisState ==
  IF version = "ReactiveStateConnectable" THEN Empty ELSE movieState

\* { ...this.state.get().favoritesLoading, [movie.id]: flag }
LoadingWith(id, flag) ==
  LET old == IF "favoritesLoading" \in DOMAIN ThisState
             THEN ThisState.favoritesLoading ELSE Empty
  IN [m \in (DOMAIN old) \cup {id} |-> IF m = id THEN flag ELSE old[m]]

\* { ...this.state.get().favorites }
FavoritesCopy ==
  IF "favorites" \in DOMAIN ThisState THEN ThisState.favorites ELSE {}

\* the template's reading of favoritesLoading[id]
IsLoading(id) ==
  /\ id \in DOMAIN movieState.favoritesLoading
  /\ movieState.favoritesLoading[id]

\* toggleFavorite$.next(movie) into the connected pipeline: the exhaustMap
\* of the movie's group calls toggleFavorite unless its request runs, and
\* startWith hands { favoritesLoading: {.., [id]: true} } to the container
ToggleConnected(id) ==
  /\ SumOver(triggered, Movies) < MaxTriggers
  /\ triggered' = [triggered EXCEPT ![id] = @ + 1]
  /\ IF InFlight(id) = {}
     THEN /\ requested' = [requested EXCEPT ![id] = @ + 1]
          /\ pending' = Append(pending, id)
          /\ movieState' =
               Merge(movieState, [favoritesLoading |-> LoadingWith(id, TRUE)])
     ELSE UNCHANGED <<requested, pending, movieState>>
  /\ UNCHANGED <<containerVars, serviceVars, shellVars, searchVars, paginateVars, alertVars, pageVars, favorites, favoritesMap, fetched>>

\* connect('favorites', getFavoriteMovies().pipe(map(toDictionary))): the
\* timer(1500) started in the constructor fires
FavoritesConnected ==
  /\ ~fetched
  /\ fetched' = TRUE
  /\ movieState' = Merge(movieState, [favorites |-> favorites])
  /\ UNCHANGED <<containerVars, serviceVars, shellVars, searchVars, paginateVars, alertVars, pageVars, favorites, favoritesMap, pending,
                 triggered, requested>>

\* the timer(1500) of the oldest running toggleFavorite fires: the service
\* updates the stored favorites, and the map(isFavorite => ...) of the
\* pipeline hands { favoritesLoading, favorites } to the container
ToggleResponse ==
  /\ fetched
  /\ pending # << >>
  /\ LET id == Head(pending)
         isFavorite == id \notin favorites
     IN /\ favorites' = IF isFavorite THEN favorites \cup {id}
                        ELSE favorites \ {id}
        /\ movieState' =
             Merge(movieState,
                   [favoritesLoading |-> LoadingWith(id, FALSE),
                    favorites |-> IF isFavorite THEN FavoritesCopy \cup {id}
                                  ELSE FavoritesCopy \ {id}])
  /\ pending' = Tail(pending)
  /\ UNCHANGED <<containerVars, serviceVars, shellVars, searchVars, paginateVars, alertVars, pageVars, favoritesMap, fetched, triggered,
                 requested>>

InitMovieList ==
  /\ stored = << >>
  /\ ServiceIdle
  /\ ShellIdle
  /\ recovery = "recursive"
  /\ query = "alien"
  /\ SearchIdle
  /\ PaginateIdle
  /\ version = "ReactiveStateConnectable"
  /\ effectFirst = FALSE
  /\ NewContainer
  /\ page = "list"
  /\ PageIdle
  /\ favorites \in SUBSET Movies
  /\ FavIdle

NextMovieList ==
  \/ \E id \in Movies : ToggleConnected(id)
  \/ FavoritesConnected
  \/ ToggleResponse

SpecMovieList == InitMovieList /\ [][NextMovieList]_vars

(* ------------------ the alert effect of the page ---------------------- *)
\* filter(favoritesLoading => !favoritesLoading[movie.id]) on snapshot s
Falsy(s, id) ==
  ~(id \in DOMAIN s.favoritesLoading /\ s.favoritesLoading[id])

\* the waiting effects whose filter lets the emission of snapshot s pass:
\* tap(() => alert('movie updated')), take(1)
Released(s, W) == {m \in W : Falsy(s, m)}

AlertsAfter(a, R) == [m \in Movies |-> IF m \in R THEN a[m] + 1 ELSE a[m]]

\* the snapshot after the state pipeline has seen the trigger of movie id
AfterTrigger(id) ==
  IF InFlight(id) = {}
  THEN Merge(movieState, [favoritesLoading |-> LoadingWith(id, TRUE)])
  ELSE movieState

\* toggleFavorite$.next(movie) with both subscribers of the subject: the
\* connected state pipeline and the registered effect, whose exhaustMap
\* subscribes select('favoritesLoading') unless it still waits for this
\* movie; the ReplaySubject(1) hands it the latest snapshot at once
ToggleObserved(id) ==
  /\ SumOver(triggered, Movies) < MaxTriggers
  /\ triggered' = [triggered EXCEPT ![id] = @ + 1]
  /\ IF InFlight(id) = {}
     THEN /\ requested' = [requested EXCEPT ![id] = @ + 1]
          /\ pending' = Append(pending, id)
     ELSE UNCHANGED <<requested, pending>>
  /\ movieState' = AfterTrigger(id)
  /\ LET seen == IF effectFirst THEN movieState ELSE AfterTrigger(id)
         \* the effects that waited before this trigger see the new snapshot
         old == IF InFlight(id) = {} THEN Released(AfterTrigger(id), waiting)
                ELSE {}
         joins == id \notin waiting /\ ~Falsy(seen, id)
         now == id \notin waiting /\ Falsy(seen, id)
         \* subscribed before the state pipeline ran, it also sees its slice
         again == IF effectFirst /\ joins /\ InFlight(id) = {}
                  THEN Released(AfterTrigger(id), {id}) ELSE {}
     IN /\ waiting' = ((waiting \ old) \cup (IF joins THEN {id} ELSE {}))
                        \ again
        /\ alerts' = AlertsAfter(AlertsAfter(AlertsAfter(alerts, old),
                                             IF now THEN {id} ELSE {}), again)
  /\ UNCHANGED <<containerVars, serviceVars, shellVars, searchVars, paginateVars, pageVars, favorites, favoritesMap, fetched,
                 effectFirst>>

\* the timer of getFavoriteMovies() fires; the snapshot goes to the
\* waiting effects as well
FavoritesObserved ==
  /\ ~fetched
  /\ fetched' = TRUE
  /\ movieState' = Merge(movieState, [favorites |-> favorites])
  /\ waiting' = waiting \ Released(movieState', waiting)
  /\ alerts' = AlertsAfter(alerts, Released(movieState', waiting))
  /\ UNCHANGED <<containerVars, serviceVars, shellVars, searchVars, paginateVars, pageVars, favorites, favoritesMap, pending,
                 triggered, requested, effectFirst>>

\* the timer of the oldest running toggleFavorite fires; the merged
\* snapshot goes to the waiting effects
ResponseObserved ==
  /\ fetched
  /\ pending # << >>
  /\ LET id == Head(pending)
         isFavorite == id \notin favorites
     IN /\ favorites' = IF isFavorite THEN favorites \cup {id}
                        ELSE favorites \ {id}
        /\ movieState' =
             Merge(movieState,
                   [favoritesLoading |-> LoadingWith(id, FALSE),
                    favorites |-> IF isFavorite THEN FavoritesCopy \cup {id}
                                  ELSE FavoritesCopy \ {id}])
  /\ pending' = Tail(pending)
  /\ waiting' = waiting \ Released(movieState', waiting)
  /\ alerts' = AlertsAfter(alerts, Released(movieState', waiting))
  /\ UNCHANGED <<containerVars, serviceVars, shellVars, searchVars, paginateVars, pageVars, favoritesMap, fetched, triggered,
                 requested, effectFirst>>

InitAlert ==
  /\ stored = << >>
  /\ ServiceIdle
  /\ ShellIdle
  /\ recovery = "recursive"
  /\ query = "alien"
  /\ SearchIdle
  /\ PaginateIdle
  /\ version = "ReactiveStateConnectable"
  /\ effectFirst \in BOOLEAN
  /\ NewContainer
  /\ page = "list"
  /\ PageIdle
  /\ favorites \in SUBSET Movies
  /\ FavIdle

NextAlert ==
  \/ \E id \in Movies : ToggleObserved(id)
  \/ FavoritesObserved
  \/ ResponseObserved

SpecAlert == InitAlert /\ [][NextAlert]_vars

(* ------------------------------ paginate ------------------------------ *)
\* a projection index that counts the triggers, dropped ones included
PageOfTrigger(accepted, seen) == seen + 1

\* requestFn(i + 1): i is the index exhaustMap hands its projection, the
\* number of projections made before; seen counts the source values
PageOf(accepted, seen) == accepted + 1

\* what the backend may answer for a page: up to PageSize movies of it
ResultsOfPage(n) ==
  {[k \in 1..len |-> [page |-> n, item |-> k]] : len \in 0..PageSize}

RECURSIVE Flatten(_)
\* [...pages[1], ...pages[2], ...]
Flatten(pages) ==
  IF pages = << >> THEN << >> ELSE Head(pages) \o Flatten(Tail(pages))

\* mergeMap in place of exhaustMap: every source value starts a request
Project2PageMerge(seen) ==
  /\ calls' = Append(calls, PageOf(Len(calls), seen))
  /\ busy' = TRUE

\* the source of exhaustMap emits (startWith's value or a trigger): the
\* projection runs unless the inner request of the last one is running
Project2Page(seen) ==
  IF busy
  THEN UNCHANGED <<calls, busy>>
  ELSE /\ calls' = Append(calls, PageOf(Len(calls), seen))
       /\ busy' = TRUE

\* the result of paginate(requestFn) is subscribed (by the switchMap of
\* movies$): startWith(void 0) emits at once
PaginateSubscribe ==
  /\ ~subscribed
  /\ subscribed' = TRUE
  /\ Project2Page(0)
  /\ UNCHANGED <<containerVars, serviceVars, shellVars, searchVars, pageVars, favVars, storeVars, alertVars,
                 scrolls, received, allMovies, outCache, outScan>>

\* (elementVisible)="paginate$.next()"
Scroll ==
  \* the element that triggers is rendered below the subscribed list
  /\ subscribed
  /\ scrolls < MaxScrolls
  /\ Len(calls) < MaxPages
  /\ scrolls' = scrolls + 1
  /\ Project2Page(scrolls + 1)
  /\ UNCHANGED <<containerVars, serviceVars, shellVars, searchVars, pageVars, favVars, storeVars, alertVars,
                 subscribed, received, allMovies, outCache, outScan>>

\* the request of page n responds and completes: map and tap of the cache
\* version, scan of the scan version
PageResponds(n, movies) ==
  /\ busy
  /\ n = calls[Len(calls)]
  /\ busy' = FALSE
  /\ received' = Append(received, movies)
  /\ outCache' = <<allMovies \o movies>>
  /\ allMovies' = allMovies \o movies
  /\ outScan' = <<(IF outScan = << >> THEN << >> ELSE outScan[1]) \o movies>>
  /\ UNCHANGED <<containerVars, serviceVars, shellVars, searchVars, pageVars, favVars, storeVars, alertVars,
                 subscribed, scrolls, calls>>

InitPaginate ==
  /\ stored = << >>
  /\ ServiceIdle
  /\ ShellIdle
  /\ recovery = "recursive"
  /\ query = "alien"
  /\ SearchIdle
  /\ version = "ReactiveStateConnectable"
  /\ effectFirst = FALSE
  /\ NewContainer
  /\ page = "list"
  /\ PageIdle
  /\ favorites = {}
  /\ FavIdle
  /\ PaginateIdle

NextPaginate ==
  \/ PaginateSubscribe
  \/ Scroll
  \/ \E n \in 1..(MaxScrolls + 1) : \E movies \in ResultsOfPage(n) :
       PageResponds(n, movies)

SpecPaginate == InitPaginate /\ [][NextPaginate]_vars

(* ----------------- the stream of the search page ---------------------- *)
Queries == {"alien", "batman", "throwError"}

SearchCall(q) == [api |-> "searchMovies", arg |-> q]

\* the retry counter after the stream emitted a value: resetOnSuccess is
\* false by default, the counter keeps its value
SoFarAfterValue(n) == n

\* the source of retry is subscribed: activatedRoute.params replays the
\* current params; skip(hot ? 0 : 1) lets them pass only in the hot stream,
\* where switchMap then requests them
Listen(isHot) ==
  /\ stage' = "listening"
  /\ searches' = IF isHot
                 THEN Append(searches, [nav |-> navs, query |-> query,
                                        status |-> "inflight"])
                 ELSE searches

\* the template (rxLet) subscribes movies$ = this.searchMovies()
SearchSubscribe ==
  /\ stage = "idle"
  /\ Listen(TRUE)
  /\ UNCHANGED <<containerVars, serviceVars, shellVars, pageVars, favVars, storeVars, alertVars,
                 paginateVars, recovery, query, navs, hot, soFar, errorShown,
                 found>>

\* a new search: the params emit q; a listening switchMap aborts the
\* request it holds and requests q; during the delay of retry and after
\* NEVER nobody observes the params
ParamsChange(q) ==
  /\ stage # "idle"
  /\ navs < MaxSearches
  /\ q \in Queries \ {query}
  /\ query' = q
  /\ navs' = navs + 1
  /\ searches' =
       IF stage = "listening"
       THEN Append([i \in 1..Len(searches) |->
                      IF searches[i].status = "inflight"
                      THEN [searches[i] EXCEPT !.status = "aborted"]
                      ELSE searches[i]],
                   [nav |-> navs + 1, query |-> q, status |-> "inflight"])
       ELSE searches
  /\ UNCHANGED <<containerVars, serviceVars, shellVars, pageVars, favVars, storeVars, alertVars,
                 paginateVars, recovery, stage, hot, soFar, errorShown, found>>

\* the request in flight answers with results
SearchOk(i) ==
  /\ i \in 1..Len(searches)
  /\ searches[i].status = "inflight"
  /\ ~Throws(SearchCall(searches[i].query))
  /\ searches' = [searches EXCEPT ![i].status = "ok"]
  /\ found' = <<ResultsOf(SearchCall(searches[i].query))>>
  /\ soFar' = SoFarAfterValue(soFar)
  /\ UNCHANGED <<containerVars, serviceVars, shellVars, pageVars, favVars, storeVars, alertVars,
                 paginateVars, recovery, query, navs, stage, hot, errorShown>>

\* the request in flight fails (the network, or the tap of 'throwError'):
\* retry starts its timer while soFar++ < count, else the error reaches
\* catchError, which calls error$.next() and returns NEVER or
\* searchMovies(false), subscribed at once
SearchFails(i) ==
  /\ i \in 1..Len(searches)
  /\ searches[i].status = "inflight"
  /\ IF soFar < RetryCount
     THEN /\ soFar' = soFar + 1
          /\ stage' = "delay"
          /\ searches' = [searches EXCEPT ![i].status = "failed"]
          /\ UNCHANGED <<hot, errorShown>>
     ELSE /\ errorShown' = errorShown + 1
          /\ IF recovery = "never"
             THEN /\ stage' = "dead"
                  /\ searches' = [searches EXCEPT ![i].status = "failed"]
                  /\ UNCHANGED <<hot, soFar>>
             ELSE /\ hot' = FALSE
                  /\ soFar' = 0
                  /\ stage' = "listening"
                  /\ searches' = [searches EXCEPT ![i].status = "failed"]
  /\ UNCHANGED <<containerVars, serviceVars, shellVars, pageVars, favVars, storeVars, alertVars,
                 paginateVars, recovery, query, navs, found>>

\* the timer(1000) of retry fires: the source is subscribed again
RetryTimer ==
  /\ stage = "delay"
  /\ Listen(hot)
  /\ UNCHANGED <<containerVars, serviceVars, shellVars, pageVars, favVars, storeVars, alertVars,
                 paginateVars, recovery, query, navs, hot, soFar, errorShown,
                 found>>

InitSearch ==
  /\ stored = << >>
  /\ ServiceIdle
  /\ ShellIdle
  /\ version = "ReactiveStateConnectable"
  /\ effectFirst = FALSE
  /\ NewContainer
  /\ page = "search"
  /\ PageIdle
  /\ favorites = {}
  /\ FavIdle
  /\ PaginateIdle
  /\ recovery \in {"never", "recursive"}
  /\ query \in Queries
  /\ SearchIdle

NextSearch ==
  \/ SearchSubscribe
  \/ \E q \in Queries : ParamsChange(q)
  \/ \E i \in 1..(MaxSearches + RetryCount + 1) : SearchOk(i)
  \/ \E i \in 1..(MaxSearches + RetryCount + 1) : SearchFails(i)
  \/ RetryTimer

SpecSearch == InitSearch /\ [][NextSearch]_vars

(* --------------------------- AppShellComponent ------------------------ *)
Urls == {"/list/popular", "/list/top_rated", "/list/genre/28", "/search/alien"}

\* the hamburger button of the template opens the side drawer
OpenDrawer ==
  /\ ~sideDrawerOpen
  /\ sideDrawerOpen' = TRUE
  /\ UNCHANGED <<containerVars, serviceVars, pageVars, favVars, storeVars, alertVars,
                 paginateVars, searchVars, url, lastUrl, ended>>

\* router.events emits NavigationEnd with urlAfterRedirects = u: filter lets
\* it pass while the drawer is open, distinctUntilChanged unless u is the
\* URL it let pass last, and the subscriber closes the drawer
NavigationEnds(u) ==
  /\ ended < MaxEnded
  /\ u \in Urls \ {url}
  /\ url' = u
  /\ ended' = ended + 1
  /\ IF sideDrawerOpen
     THEN IF lastUrl = <<u>>
          THEN UNCHANGED <<sideDrawerOpen, lastUrl>>
          ELSE /\ lastUrl' = <<u>>
               /\ sideDrawerOpen' = FALSE
     ELSE UNCHANGED <<sideDrawerOpen, lastUrl>>
  /\ UNCHANGED <<containerVars, serviceVars, pageVars, favVars, storeVars, alertVars,
                 paginateVars, searchVars>>

InitShell ==
  /\ stored = << >>
  /\ ServiceIdle
  /\ version = "ReactiveStateConnectable"
  /\ effectFirst = FALSE
  /\ NewContainer
  /\ page = "list"
  /\ PageIdle
  /\ favorites = {}
  /\ FavIdle
  /\ PaginateIdle
  /\ recovery = "recursive"
  /\ query = "alien"
  /\ SearchIdle
  /\ ShellIdle

NextShell ==
  \/ OpenDrawer
  \/ \E u \in Urls : NavigationEnds(u)

SpecShell == InitShell /\ [][NextShell]_vars

(* ------------------- MovieService.toggleFavorite ---------------------- *)
\* the ids of the entries of a stored list
IdsOf(list) == {list[i] : i \in 1..Len(list)}

\* a lookup that only looks at the first entry
FindFirst(list, id) == list # << >> /\ list[1] = id

\* this.getFavorites().find(f => f.id === movie.id)
Find(list, id) == \E i \in 1..Len(list) : list[i] = id

\* insert(this.getFavorites(), movie): the movie is appended
Insert(list, id) == Append(list, id)

\* remove(this.getFavorites(), movie, 'id'): the entries with its id go
Remove(list, id) == SelectSeq(list, LAMBDA x : x # id)

\* the lists the service can have stored: it inserts a movie only when its
\* id is not found
StoredLists ==
  {list \in UNION {[1..n -> Movies] : n \in 0..NumMovies} :
     \A i, j \in 1..Len(list) : i # j => list[i] # list[j]}

\* toggleFavorite(movie) is called and the observable subscribed: the
\* timer(1500) starts
ToggleFavorite(id) ==
  /\ Len(timers) + Len(log) < MaxToggles
  /\ timers' = Append(timers, id)
  /\ UNCHANGED <<containerVars, pageVars, favVars, storeVars, alertVars,
                 paginateVars, searchVars, shellVars, stored, answer, log>>

\* the oldest timer fires: map(() => { find, setFavorites(remove | insert),
\* return false | true })
TimerFires ==
  /\ timers # << >>
  /\ LET id == Head(timers) IN
       /\ IF Find(stored, id)
          THEN /\ stored' = Remove(stored, id)
               /\ answer' = <<FALSE>>
          ELSE /\ stored' = Insert(stored, id)
               /\ answer' = <<TRUE>>
       /\ log' = Append(log, [id |-> id, before |-> IdsOf(stored)])
  /\ timers' = Tail(timers)
  /\ UNCHANGED <<containerVars, pageVars, favVars, storeVars, alertVars,
                 paginateVars, searchVars, shellVars>>

InitService ==
  /\ version = "ReactiveStateConnectable"
  /\ effectFirst = FALSE
  /\ NewContainer
  /\ page = "list"
  /\ PageIdle
  /\ favorites = {}
  /\ FavIdle
  /\ PaginateIdle
  /\ recovery = "recursive"
  /\ query = "alien"
  /\ SearchIdle
  /\ ShellIdle
  /\ stored \in StoredLists
  /\ ServiceIdle

NextService ==
  \/ \E id \in Movies : ToggleFavorite(id)
  \/ TimerFires

SpecService == InitService /\ [][NextService]_vars

(* ============================== claims ================================ *)
\* the snapshot made of the values last written to each key
SnapshotOf(w) == [k \in {x \in Keys : w[x] # Undefined} |-> w[k]]

\* versions in which the constructor's subscription assigns this.state
AssignsInSubscribe == version \in {"LocalState", "LocalStateShare"}

\* versions in which every consumer shares the container's pipeline run
Multicast == version \in {"LocalStateShare", "ReactiveStateConnectable"}

\* only set() has fed the container so far
OnlySet == \A p \in Producers : ~conn[p]

FrameKept(em, slice) ==
  \A ch \in ChainIds : \A k \in Keys :
    Get(chains'[ch].acc, k) =
      IF InSeq(ch, em) /\ k \in DOMAIN slice THEN slice[k]
      ELSE Get(chains[ch].acc, k)

\* C3: a partial update changes only the keys it holds: after set(partial)
\* and after an emission of a connect(producer) producer every key absent
\* from the partial keeps its value, and an emission v of a
\* connect(key, producer) producer sets key to v and leaves every other key
\* unchanged (in the accumulator of every pipeline run, and in this.state
\* where the constructor's subscription assigns it).
C3_OnlyKeysOfPartialChange ==
  [][/\ \A slice \in Partials :
          Set(slice) =>
            /\ FrameKept(DispatchOrder, slice)
            /\ (AssignsInSubscribe /\ ownSub) =>
                 \A k \in Keys \ DOMAIN slice : Get(state', k) = Get(state, k)
     /\ \A p \in Producers : \A v \in Emitted(Mode(p)) :
          ProducerEmit(p, v) =>
            IF Mode(p) \in Keys
            THEN /\ \A ch \in ChainIds : \A k \in Keys :
                      Get(chains'[ch].acc, k) =
                        IF InSeq(ch, Subscribers(p)) /\ k = Mode(p) THEN v
                        ELSE Get(chains[ch].acc, k)
                 /\ (AssignsInSubscribe /\ ownSub) =>
                      \A k \in Keys :
                        Get(state', k) =
                          IF k = Mode(p) THEN v ELSE Get(state, k)
            ELSE /\ FrameKept(Subscribers(p), v)
                 /\ (AssignsInSubscribe /\ ownSub) =>
                      \A k \in Keys \ DOMAIN v : Get(state', k) = Get(state, k)]_vars

\* set({a:1}) and an emission 2 of the connect("b", producer) producer, in
\* either order: each left the other key alone
C3_Witness ==
  /\ updates = 2
  /\ merged = 2
  /\ chains[0].inner[2] = "active"
  /\ chains[0].acc = [a |-> "1", b |-> "2"]
  /\ written = [a |-> "1", b |-> "2"]

\* C4: in the multicasted versions a connected producer is subscribed once,
\* whatever the select() consumers do: there is at most one run of the
\* aggregated stream, no consumer has a run of its own, and the invocation
\* counter of a producer the pipeline took is 1.
C4_ProducerSubscribedOnce ==
  version \in {"LocalStateShare", "ReactiveStateConnectable"} =>
    /\ \A c \in Consumers : chains[c].status = "none"
    /\ Cardinality({ch \in ChainIds : Live(ch)}) <= 1
    /\ \A p \in Producers :
         /\ invocations[p] <= 1
         /\ chains[0].inner[p] # "none" => invocations[p] = 1

\* two consumers are subscribed and the producer was subscribed once
C4_Witness ==
  /\ version = "ReactiveStateConnectable"
  /\ \A c \in Consumers : cons[c].status = "subscribed"
  /\ conn[1]
  /\ chains[0].inner[1] = "active"
  /\ invocations[1] = 1
  /\ merged > 0

\* C5: in the multicasted versions, while the container's own connection is
\* open, a consumer that subscribes to select() after an update was applied
\* is handed the current snapshot at once, and every update applied is
\* handed, when it is applied, to every consumer subscribed at that moment.
C5_LateSubscriberGetsSnapshot ==
  [][(Multicast /\ ownSub) =>
       /\ \A c \in Consumers :
            (SelectSubscribe(c) /\ merged > 0) =>
              /\ cons'[c].delivery # NoDelivery
              /\ cons'[c].delivery[1].value =
                   Project(SnapshotOf(written), Sel(c))
       /\ merged' = merged + 1 =>
            \A c \in Consumers :
              cons[c].status = "subscribed" =>
                /\ cons'[c].delivery # NoDelivery
                /\ cons'[c].delivery[1].value =
                     Project(SnapshotOf(written'), Sel(c))]_vars

\* consumer 2 subscribed after an update and was replayed the snapshot while
\* consumer 1, subscribed before, was handed nothing in that step
C5_Witness ==
  /\ version = "ReactiveStateConnectable"
  /\ ownSub
  /\ merged > 0
  /\ order = <<1, 2>>
  /\ cons[1].delivery = NoDelivery
  /\ cons[2].delivery # NoDelivery
  /\ cons[2].delivery[1].value = Project(SnapshotOf(written), Sel(2))

\* C6: whenever a select() or select(key) consumer is handed a value, get()
\* and get(key) called in its callback return the snapshot of that emission,
\* in the tap version and in the multicasted (connectable) version alike.
C6_NoStaleRead ==
  version \in {"ReactiveState", "ReactiveStateConnectable"} =>
    \A c \in Consumers :
      cons[c].delivery # NoDelivery =>
        cons[c].delivery[1].got = cons[c].delivery[1].value

\* C7: when a connected producer errors only its own subscription ends: the
\* container's run of the aggregated stream stays active and no other
\* producer is unsubscribed.
C7_ProducerErrorIsolated ==
  \A p \in Producers :
    chains[0].inner[p] = "errored" =>
      /\ chains[0].status = "active"
      /\ \A q \in Producers : chains[0].inner[q] # "unsubscribed"

\* C8: when a held effect errors, the container's run of the state pipeline
\* and its subscriptions to the connected producers are left as they are,
\* and every later emission of a connected producer is still merged: into the
\* accumulator select() hands out, into this.state in the versions that
\* assign it, and into the replay buffer of the multicasted versions.
C8_EffectErrorLeavesProducers ==
  [][/\ (effectsSub = "active" /\ effectsSub' = "errored") =>
          /\ chains' = chains
          /\ state' = state
          /\ ownSub' = ownSub
          /\ replay' = replay
     /\ \A p \in Producers : \A v \in Emitted(Mode(p)) :
          (ProducerEmit(p, v) /\ effectsSub = "errored" /\ ownSub) =>
            /\ chains'[0].inner[p] = "active"
            /\ chains'[0].acc = SnapshotOf(written')
            /\ version # "ReactiveStateConnectable" =>
                 state' = SnapshotOf(written')
            /\ Multicast => replay' = <<SnapshotOf(written')>>]_vars

\* an effect errored, then the connect("b", producer) producer emitted 2 and
\* the value is in the snapshot
C8_Witness ==
  /\ version = "ReactiveState"
  /\ effectsSub = "errored"
  /\ afterEffErr
  /\ updates = 1
  /\ chains[0].inner[2] = "active"
  /\ state = [b |-> "2"]

\* C9: while the scope is alive an error or a completion of one effect
\* unsubscribes no other effect, and an effect handed to hold() afterwards
\* is subscribed.
C9_EffectsIsolated ==
  alive =>
    \A e \in Effects :
      /\ eff[e] # "unsubscribed"
      /\ held[e] => eff[e] # "none"

\* C10: after the owning scope has ended this.state never changes again,
\* whether a producer connected before the teardown emits or set() is
\* called; in the connectable version nothing reaches the replay buffer or a
\* consumer either (versions whose state is assigned by the constructor's
\* subscription or connection).
C10_NoUpdateAfterTeardown ==
  [][(~alive /\ version # "ReactiveState") =>
       /\ state' = state
       /\ version = "ReactiveStateConnectable" =>
            /\ replay' = replay
            /\ \A c \in Consumers : cons'[c].delivery = NoDelivery]_vars

\* the scope ended with a producer connected, an update came afterwards,
\* and the snapshot is the one of the teardown
C10_Witness ==
  /\ version = "LocalState"
  /\ ~alive
  /\ late
  /\ chains[0].inner[1] = "unsubscribed"
  /\ state # Empty
  /\ updates = MaxUpdates

\* C11: once the scope has ended the container's subscription to the
\* aggregated stream, its subscriptions to the connected producers, the
\* subscription to effects$ and the subscriptions to the held effects are
\* all released, and running the teardown once more changes nothing.
C11_TeardownReleasesAll ==
  [][/\ ~alive' =>
          /\ ~ownSub'
          /\ chains'[0].status # "active"
          /\ \A p \in Producers : chains'[0].inner[p] # "active"
          /\ effectsSub' # "active"
          /\ \A e \in Effects : eff'[e] # "active"
     /\ DestroyAgain => UNCHANGED vars]_vars

\* the scope ended while a producer and an effect were subscribed
C11_Witness ==
  /\ version = "ReactiveStateConnectable"
  /\ ~alive
  /\ chains[0].status = "closed"
  /\ chains[0].inner[1] = "unsubscribed"
  /\ effectsSub = "closed"
  /\ eff[1] = "unsubscribed"

\* C12: connect and hold called after the scope has ended do nothing: the
\* producer or the effect is not subscribed, and this.state, the pipeline
\* and the replay buffer stay as they are.
C12_ConnectHoldAfterTeardownNoOp ==
  [][~alive =>
       /\ \A p \in Producers :
            (~conn[p] /\ conn'[p]) =>
              /\ invocations' = invocations
              /\ chains' = chains
              /\ state' = state
              /\ replay' = replay
       /\ \A e \in Effects :
            (~held[e] /\ held'[e]) =>
              /\ eff' = eff
              /\ effectsSub' = effectsSub
              /\ chains' = chains
              /\ state' = state]_vars

\* a producer was connected and an effect was held after the teardown; neither
\* was subscribed
C12_Witness ==
  /\ ~alive
  /\ chains[0].status = "closed"
  /\ conn[1]
  /\ chains[0].inner[1] = "none"
  /\ invocations[1] = 0
  /\ effectsSub = "closed"
  /\ held[1]
  /\ eff[1] = "none"

\* C13: while the container's own subscription is open, the partial updates
\* of set() and of all connected producers are folded one per event in the
\* order in which the events arrive, whatever the order in which the
\* producers were connected: every update offered has been folded once, and
\* the accumulator, this.state (where the constructor's subscription assigns
\* it), the replay buffer and every value handed to a consumer of a
\* multicasted state$ are the fold of all events that have arrived.
C13_FoldInArrivalOrder ==
  ownSub =>
    /\ merged = updates
    /\ chains[0].acc = SnapshotOf(written)
    /\ AssignsInSubscribe => state = SnapshotOf(written)
    /\ Multicast =>
         /\ merged > 0 => replay = <<SnapshotOf(written)>>
         /\ \A c \in Consumers :
              cons[c].delivery # NoDelivery =>
                cons[c].delivery[1].value =
                  Project(SnapshotOf(written), Sel(c))

\* both producers are subscribed; the keyed producer wrote b, another source
\* wrote a twice, and the snapshot holds the values that arrived last
C13_Witness ==
  /\ version = "LocalStateShare"
  /\ ownSub
  /\ chains[0].inner[1] = "active"
  /\ chains[0].inner[2] = "active"
  /\ updates = 3
  /\ merged = 3
  /\ state = [a |-> "2", b |-> "2"]

\* C14: hold(effect) on a live container subscribes the effect in the call,
\* and while the scope is alive a subscribed effect stops being subscribed
\* only by completing or erroring itself.
C14_HoldSubscribesUntilDone ==
  [][alive' =>
       \A e \in Effects :
         /\ (~held[e] /\ held'[e]) => eff'[e] = "active"
         /\ (eff[e] = "active" /\ eff'[e] # "active") =>
              eff'[e] \in {"completed", "errored"}]_vars

\* an effect emitted, completed or errored in this step
EffectEvent ==
  \/ effectEmits' # effectEmits
  \/ \E e \in Effects :
       eff[e] = "active" /\ eff'[e] \in {"completed", "errored"}

\* C15: what a held effect emits is dropped: an emission, a completion or an
\* error of an effect changes neither this.state nor the pipeline (its
\* accumulators and its subscriptions), and makes state$ emit nothing: the
\* number of folded updates and the replay buffer stay, no consumer is
\* handed a value.
C15_EffectsNeverFeedState ==
  [][EffectEvent =>
       /\ state' = state
       /\ chains' = chains
       /\ merged' = merged
       /\ replay' = replay
       /\ written' = written
       /\ \A c \in Consumers : cons'[c].delivery = NoDelivery]_vars

\* after set({a:1}) one effect emitted and completed and another errored;
\* the snapshot is still {a:1}
C15_Witness ==
  /\ version = "ReactiveState"
  /\ alive
  /\ effectEmits = 1
  /\ eff[1] = "completed"
  /\ eff[2] = "errored"
  /\ merged = 1
  /\ state = [a |-> "1"]

\* C16: a new container has no initial state: as long as no set() was
\* called and no connected producer has emitted, get() returns the empty
\* record, get(key) returns undefined for every key, the replay buffer is
\* empty and no select() consumer has been handed a value.
C16_NoInitialState ==
  updates = 0 =>
    /\ state = Empty
    /\ \A k \in Keys : Get(state, k) = Undefined
    /\ \A ch \in ChainIds : chains[ch].acc = Empty
    /\ merged = 0
    /\ replay = << >>
    /\ \A c \in Consumers : cons[c].delivery = NoDelivery

\* consumers of select() and select(key) are subscribed and a producer is
\* connected, and nothing was written yet
C16_Witness ==
  /\ version = "LocalStateShare"
  /\ updates = 0
  /\ \A c \in Consumers : cons[c].status = "subscribed"
  /\ chains[0].inner[1] = "active"
  /\ state = Empty

\* the pipeline run whose emissions consumer c observes
RunOf(c) == IF Cold THEN c ELSE 0

\* consumer c was handed exactly the snapshot its run made of slice
HandedOnce(c, slice) ==
  /\ Len(cons'[c].delivery) = 1
  /\ cons'[c].delivery[1].value = Project(NewAcc(RunOf(c), slice), Sel(c))

\* C17: a consumer subscribed to select() or select(key) is handed one value
\* for every update its pipeline run folds, select(key) also when the value
\* of the key did not change, and no value in a step that folds no update
\* (but the replayed snapshot when it subscribes).
C17_OneEmissionPerUpdate ==
  [][\A c \in Consumers :
       cons[c].status = "subscribed" =>
         /\ \A slice \in Partials :
              Set(slice) =>
                IF InSeq(RunOf(c), DispatchOrder) THEN HandedOnce(c, slice)
                ELSE cons'[c].delivery = NoDelivery
         /\ \A p \in Producers : \A v \in Emitted(Mode(p)) :
              ProducerEmit(p, v) =>
                IF InSeq(RunOf(c), Subscribers(p))
                THEN HandedOnce(c, Coerce(Mode(p), v))
                ELSE cons'[c].delivery = NoDelivery
         /\ updates' = updates => cons'[c].delivery = NoDelivery]_vars

\* the select("a") consumer was handed "1" by the second of two updates that
\* both wrote "1" to a
C17_Witness ==
  /\ version = "ReactiveStateConnectable"
  /\ updates = 2
  /\ merged = 2
  /\ written = [a |-> "1", b |-> Undefined]
  /\ order = <<2>>
  /\ cons[2].delivery # NoDelivery
  /\ cons[2].delivery[1].value = "1"

\* C18: in the multicasted versions, while the scope is alive and the
\* container's own subscription is open, a consumer leaving changes neither
\* the replay buffer nor the pipeline, also when it was the last one; a
\* consumer that subscribes when no other consumer is subscribed is handed
\* the latest snapshot at once, and no producer is subscribed again.
C18_SnapshotSurvivesDetach ==
  [][(Multicast /\ alive /\ ownSub) =>
       \A c \in Consumers :
         /\ (cons[c].status = "subscribed" /\ cons'[c].status = "detached") =>
              /\ replay' = replay
              /\ chains' = chains
              /\ invocations' = invocations
         /\ (/\ cons[c].status = "idle"
             /\ cons'[c].status = "subscribed"
             /\ order = << >>
             /\ merged > 0) =>
              /\ cons'[c].delivery # NoDelivery
              /\ cons'[c].delivery[1].value =
                   Project(SnapshotOf(written), Sel(c))
              /\ chains' = chains
              /\ invocations' = invocations]_vars

\* consumer 1 has left, consumer 2 is the only one subscribed and was handed
\* the snapshot; the producer was subscribed once and still is
C18_Witness ==
  /\ version = "LocalStateShare"
  /\ alive
  /\ ownSub
  /\ cons[1].status = "detached"
  /\ order = <<2>>
  /\ merged > 0
  /\ cons[2].delivery # NoDelivery
  /\ cons[2].delivery[1].value = Project(SnapshotOf(written), Sel(2))
  /\ chains[0].inner[1] = "active"
  /\ invocations[1] = 1

\* C19: in the switchMap-based movie streams, params that arrive while the
\* request of the previous params is in flight abort that request, an
\* aborted request never delivers, and every list handed to the consumer is
\* the response to the most recent params at the time of the delivery.
C19_OnlyLatestDelivered ==
  [][/\ \A prm \in ParamsOf(page) :
          Navigate(prm) =>
            \A i \in 1..Len(reqs) :
              reqs[i].status = "inflight" => reqs'[i].status = "aborted"
     /\ \A i \in 1..Len(reqs) :
          reqs[i].status = "aborted" => reqs'[i].status = "aborted"
     /\ shown' # shown =>
          /\ shown'[1].req = Len(reqs)
          /\ shown'[1].movies =
               ResultsOf(Project2Request(page, reqs[Len(reqs)].params))
     /\ Cardinality({i \in 1..Len(reqs') : reqs'[i].status = "inflight"}) <= 1
    ]_vars

\* the latest request delivered after an earlier one was aborted in flight
C19_Witness ==
  /\ shown # << >>
  /\ shown[1].req = Len(reqs)
  /\ \E i \in 1..Len(reqs) :
       /\ i < shown[1].req
       /\ reqs[i].status = "aborted"
       /\ reqs[i].params # reqs[shown[1].req].params

\* C20: in the groupBy / mergeMap / exhaustMap pipeline at most one
\* toggleFavorite request per movie id is in flight; a trigger for an id
\* whose request is in flight is dropped; a trigger for another id starts
\* its own request at once, whatever runs for the other ids.
C20_OneRequestPerMovie ==
  [][/\ \A id \in Movies : Cardinality(InFlight(id)) <= 1
     /\ \A id \in Movies :
          Toggle(id) =>
            IF InFlight(id) # {}
            THEN /\ pending' = pending
                 /\ requested' = requested
                 /\ favorites' = favorites
                 /\ favoritesMap' = favoritesMap
            ELSE /\ pending' = Append(pending, id)
                 /\ requested'[id] = requested[id] + 1
    ]_vars

\* a trigger of a movie was dropped, and the requests of two movies run
\* side by side
C20_Witness ==
  /\ \E id \in Movies : triggered[id] > requested[id]
  /\ \E i, j \in 1..Len(pending) : pending[i] # pending[j]

\* C21: with the toggle pipeline connected to the state container,
\* favoritesLoading[id] is true exactly while a toggle request of movie id
\* runs, and the response of one movie's toggle changes neither the loading
\* flag nor the favorites entry of another movie.
C21_LoadingFlagPerMovie ==
  /\ \A id \in Movies : IsLoading(id) <=> InFlight(id) # {}
  /\ fetched => favorites \subseteq movieState.favorites

\* C22: for each accepted favorite toggle exactly one 'movie updated' alert
\* is raised, and it is raised when the response of that toggle is merged,
\* never before: per movie the alerts raised so far are as many as the
\* toggle requests that have responded, whether the effect was registered
\* before or after the state pipeline was connected.
C22_OneAlertPerResponse ==
  \A id \in Movies : alerts[id] = requested[id] - Cardinality(InFlight(id))

\* C23: in paginate at most one page request is in flight: a paginate$
\* trigger that arrives while a request is in flight starts no request, then
\* or later (requests start only in the step of a trigger that finds the
\* stream idle, or at subscription), and the first page is requested on
\* subscription without any trigger.
C23_OnePageInFlight ==
  [][/\ Len(calls') - Len(received') <= 1
     /\ busy' <=> Len(calls') = Len(received') + 1
     /\ (Scroll /\ busy) => calls' = calls
     /\ (Scroll /\ ~busy) => Len(calls') = Len(calls) + 1
     /\ calls' # calls => (PaginateSubscribe \/ (Scroll /\ ~busy))
     /\ PaginateSubscribe => (calls' = <<1>> /\ scrolls' = scrolls)
    ]_vars

\* a trigger was dropped while page 1 was in flight, and the next trigger
\* after the response requested the next page
C23_Witness ==
  /\ Len(calls) = 2
  /\ scrolls > Len(calls) - 1
  /\ Len(received) >= 1

\* C24: requestFn is called with the pages 1, 2, 3, ... without gap or
\* repetition even when triggers are dropped; after the n-th response the
\* list emitted is the concatenation of the results of pages 1..n in page
\* order; the cache version and the scan version emit the same lists.
C24_PagesInOrder ==
  /\ \A i \in 1..Len(calls) : calls[i] = i
  /\ \A i \in 1..Len(received) :
       \A k \in 1..Len(received[i]) : received[i][k].page = i
  /\ received # << >> =>
       /\ outCache = <<Flatten(received)>>
       /\ outScan = <<Flatten(received)>>
  /\ received = << >> => (outCache = << >> /\ outScan = << >>)
  /\ outCache = outScan

\* two pages answered after a trigger was dropped in between
C24_Witness ==
  /\ Len(received) >= 2
  /\ scrolls > Len(calls) - 1
  /\ received[1] # << >>
  /\ received[2] # << >>

\* the requests that have been answered, in order
Answered == SelectSeq(searches, LAMBDA r : r.status \in {"ok", "failed"})

\* C25: with retry({ delay: 1000, count: 2 }) before catchError the error
\* trigger fires only after the initial request and both retries have
\* failed: whenever error$.next() is called, the last three answered
\* requests have failed, none of them succeeded.
C25_ErrorAfterTwoRetries ==
  [][errorShown' # errorShown =>
       LET a == Answered' IN
         /\ Len(a) >= RetryCount + 1
         /\ \A k \in 0..RetryCount : a[Len(a) - k].status = "failed"
    ]_vars

\* C26: with the recursive searchMovies(hot) recovery the stream does not
\* request failing params again on its own (no params emission is requested
\* more than 1 + retry count times, and catchError starts no request), and
\* a change of the route params starts a new search whose results are
\* delivered: a stream that listens has requested the current params.
C26_RecoversWithoutLoop ==
  recovery = "recursive" =>
    /\ \A n \in 0..navs :
         Cardinality({i \in 1..Len(searches) : searches[i].nav = n})
           <= 1 + RetryCount
    /\ stage = "listening" =>
         \E i \in 1..Len(searches) : searches[i].nav = navs
    /\ \A i \in 1..Len(searches) :
         (searches[i].status = "ok" /\ searches[i].nav = navs) =>
           found = <<ResultsOf(SearchCall(query))>>

\* C27: when a connected producer completes normally the aggregated stream
\* does not complete: the container's run stays active with the snapshot it
\* had, the other producers stay subscribed, and later set() calls and
\* emissions of other producers are still merged and handed to the select()
\* consumers of the multicasted versions.
C27_CompletionKeepsStream ==
  [][/\ \A p \in Producers :
          (ProducerComplete(p) /\ chains[0].inner[p] = "active") =>
            /\ chains'[0].status = "active"
            /\ chains'[0].acc = chains[0].acc
            /\ state' = state
            /\ replay' = replay
            /\ ownSub' = ownSub
            /\ \A q \in Producers \ {p} :
                 chains'[0].inner[q] = chains[0].inner[q]
     /\ (\E p \in Producers : chains[0].inner[p] = "completed") =>
          /\ \A slice \in Partials :
               (Set(slice) /\ Live(0)) =>
                 /\ chains'[0].acc = Merge(chains[0].acc, slice)
                 /\ Multicast =>
                      \A c \in Consumers :
                        cons[c].status = "subscribed" =>
                          /\ cons'[c].delivery # NoDelivery
                          /\ cons'[c].delivery[1].value =
                               Project(chains'[0].acc, Sel(c))
          /\ \A q \in Producers : \A v \in Emitted(Mode(q)) :
               (ProducerEmit(q, v) /\ chains[0].inner[q] = "active") =>
                 /\ chains'[0].acc =
                      Merge(chains[0].acc, Coerce(Mode(q), v))
                 /\ Multicast =>
                      \A c \in Consumers :
                        cons[c].status = "subscribed" =>
                          /\ cons'[c].delivery # NoDelivery
                          /\ cons'[c].delivery[1].value =
                               Project(chains'[0].acc, Sel(c))
    ]_vars

\* a producer has completed, and an update made after that has been merged
\* and handed to a select() consumer of a multicasted version
C27_Witness ==
  /\ Multicast
  /\ \E p \in Producers : chains[0].inner[p] = "completed"
  /\ \E p \in Producers : chains[0].inner[p] = "active"
  /\ Live(0)
  /\ chains[0].acc # Empty
  /\ \E c \in Consumers :
       /\ cons[c].delivery # NoDelivery
       /\ cons[c].delivery[1].value = Project(chains[0].acc, Sel(c))

\* C28: in MovieListPageComponent as checked in (nested subscriptions), once
\* every request issued has responded, the movies field holds the response
\* to the request of the most recent route params, in whatever order the
\* responses arrived.
C28_NestedShowsLatest ==
  (reqs # << >> /\ \A i \in 1..Len(reqs) : reqs[i].status = "done") =>
    /\ shown # << >>
    /\ shown[1].movies = ResultsOf(Project2Request(page, reqs[Len(reqs)].params))

\* C29: in AppShellComponent a NavigationEnd while sideDrawerOpen is true
\* sets sideDrawerOpen to false, also when its urlAfterRedirects is the URL
\* of the previous navigation that closed the drawer; a NavigationEnd while
\* the drawer is closed leaves it closed.
C29_NavigationClosesDrawer ==
  [][\A u \in Urls : NavigationEnds(u) => ~sideDrawerOpen']_vars

\* C30: toggleFavorite(movie) emits true and adds the movie to the stored
\* favorites when no favorite with its id is stored, and emits false and
\* removes it when one is; the stored favorites never hold two entries with
\* the same id; two consecutive completed toggles of the same movie restore
\* the stored set of favorite ids.
C30_ToggleFavoriteInvolution ==
  [][TimerFires =>
       LET id == Head(timers)
           n == Len(log')
       IN /\ id \notin IdsOf(stored) =>
               /\ answer' = <<TRUE>>
               /\ IdsOf(stored') = IdsOf(stored) \cup {id}
          /\ id \in IdsOf(stored) =>
               /\ answer' = <<FALSE>>
               /\ IdsOf(stored') = IdsOf(stored) \ {id}
          /\ \A i, j \in 1..Len(stored') : i # j => stored'[i] # stored'[j]
          /\ (n >= 2 /\ log'[n].id = log'[n - 1].id) =>
               IdsOf(stored') = log'[n - 1].before
    ]_vars

\* a movie was added to a list that held another one and removed again by
\* its next toggle
C30_Witness ==
  /\ Len(log) >= 2
  /\ log[Len(log)].id = log[Len(log) - 1].id
  /\ log[Len(log) - 1].before # {}
  /\ log[Len(log)].id \notin log[Len(log) - 1].before
  /\ answer = <<FALSE>>
  /\ IdsOf(stored) = log[Len(log) - 1].before

====
